---- MODULE Spec2Model ----
(***************************************************************************)
(* Model of the FormPreparation React component (the job orchestrator of   *)
(* commonforms-service): upload -> startDetect -> pollStatus -> download.  *)
(*                                                                         *)
(* The React state cells are the variables file, documentId, uploading,    *)
(* state and error.  Every handler (a click handler, or the continuation   *)
(* of an awaited fetch) is one action; the action includes the re-render   *)
(* it causes and the poller effect's cleanup and re-run, because React     *)
(* commits them before the next event is delivered.                        *)
(***************************************************************************)
EXTENDS Integers, FiniteSets, Sequences, TLC

\* ---------------------------------------------------------------- bounds
\* Largest number of pollStatus calls outstanding at once.
MaxInFlight == 2
\* Largest number of startDetect calls outstanding at once.
MaxSubmits == 1

\* ------------------------------------------------------------- constants
Null == "null"
\* Document ids the server may assign on upload.
Docs == {"doc-1", "doc-2"}
NoFile == "nofile"
PdfFile == "form.pdf"

\* type JobState
JobState == {"enqueued", "running", "success", "failure"}
\* A status string that is not a JobState; the server's JSON is not validated.
OtherStatus == "cancelled"
\* What res.json().status can be at run time.
StatusResponse == JobState \cup {OtherStatus}

API_BASE == "https://<modal-username>--form-preparation-form-preparation.modal.run"
POLL_MS == 1500

\* The ways an awaited API call can reject: res.ok false, or fetch itself throws.
Rejections == {"http", "network"}

\* API.upload / API.startDetect / API.pollStatus: the message of the Error
\* the call rejects with.
UploadError(r) == IF r = "http" THEN "Upload failed (status)" ELSE "Failed to fetch"
StartDetectError(r) == IF r = "http" THEN "Detect failed (status)" ELSE "Failed to fetch"
PollStatusError(r) == IF r = "http" THEN "Status failed (status)" ELSE "Failed to fetch"

\* API.getDownloadUrl
getDownloadUrl(d) == <<API_BASE, "/download?documentId=", d>>
\* The page the component is served from.
AppPage == <<API_BASE, "/">>

\* choice: "quick" | "standard" | "enhanced"
Choices == {"quick", "standard", "enhanced"}
\* The range input of "Detection Sensitivity": min={1} max={5}.
SensitivityMin == 1
SensitivityMax == 5
Sensitivities == SensitivityMin..SensitivityMax
\* useState(3)
SensitivityDefault == 3

\* mapChoiceToModel as it would be if only quick were mapped to small.
mapChoiceToModel_StandardIsLarge(c) == IF c = "quick" THEN "small" ELSE "large"
\* export function mapChoiceToModel(choice)
mapChoiceToModel(c) == IF c = "enhanced" THEN "large" ELSE "small"

\* export function buildPrepareRequest(documentId, choice,
\* useTextboxesForSignatures, keepExisting, sensitivity)
buildPrepareRequest(d, c, textboxes, keep, sens) ==
    [documentId |-> d,
     config |-> [model |-> mapChoiceToModel(c),
                 sensitivity |-> sens,
                 use_signature_fields |-> ~textboxes,
                 keep_existing_fields |-> keep]]

\* No request has been built.
NoRequest ==
    [documentId |-> Null,
     config |-> [model |-> Null,
                 sensitivity |-> 0,
                 use_signature_fields |-> FALSE,
                 keep_existing_fields |-> FALSE]]

VARIABLES
    file,        \* useState<File | null>
    documentId,  \* useState<string | null>
    uploading,   \* useState(false); TRUE exactly while API.upload is awaited
    state,       \* useState<JobState | null>
    error,       \* useState<string | null>
    timer,       \* the interval of the mounted poller effect: the documentId
                 \* its tick closes over, or Null when no interval is armed
    polls,       \* outstanding API.pollStatus calls, counted per
                 \* [doc, own]: own = issued by the effect run still mounted
    submits,     \* outstanding API.startDetect calls, counted per documentId
    href,        \* window.location.href
    jobDoc,      \* req.documentId of the startDetect call onStart made last;
                 \* Null before the first one and after onReset
    choice,      \* useState<"quick" | "standard" | "enhanced">("standard")
    sensitivity, \* useState(3)
    useTextboxesForSignatures,  \* useState(false)
    keepExisting,               \* useState(false)
    req,         \* the PrepareRequest onStart built last; NoRequest before
                 \* the first one and after onReset
    navigated,   \* tick() assigned window.location.href since the last
                 \* onStart or onReset
    event        \* the handler that ran last, and whether it navigated

vars == <<file, documentId, uploading, state, error, timer, polls, submits, href,
          jobDoc, choice, sensitivity, useTextboxesForSignatures, keepExisting,
          req, navigated, event>>

\* The settings of the "Select Pipeline" and "Advanced Settings" panels.
settings == <<choice, sensitivity, useTextboxesForSignatures, keepExisting>>
\* The cells of the upload and job flow.
flow == <<file, documentId, uploading, state, error, timer, polls, submits, href,
          jobDoc>>

PollKeys == [doc : Docs, own : BOOLEAN]

\* kind: the handler; navigated: it assigned window.location.href;
\* polled: it called API.pollStatus.
\* response: the status or rejection the awaited call settled with; call: the
\* documentId the settled pollStatus call was made for.
EvSettled(kind, nav, polled, resp, d) ==
    [kind |-> kind, navigated |-> nav, polled |-> polled, response |-> resp, call |-> d]
Ev(kind, nav, polled) == EvSettled(kind, nav, polled, Null, Null)

\* const working = state === "enqueued" || state === "running"
working == state = "enqueued" \/ state = "running"

RECURSIVE SumOver(_, _)
SumOver(f, S) == IF S = {} THEN 0
                 ELSE LET x == CHOOSE y \in S : TRUE
                      IN f[x] + SumOver(f, S \ {x})

\* Number of pollStatus calls issued and not yet resolved.
InFlightPolls(ps) == SumOver(ps, PollKeys)
\* Number of startDetect calls issued and not yet resolved.
InFlightSubmits(ss) == SumOver(ss, Docs)

\* ------------------------------------------------------- the poller effect
\* The effect's guard: if (!documentId || !state || state === "success"
\* || state === "failure") return;
PollerRuns(d, s) == d # Null /\ s # Null /\ s # "success" /\ s # "failure"

\* tick(): the call API.pollStatus(documentId) of the effect run for d.
IssuePoll(ps, d) ==
    [ps EXCEPT ![[doc |-> d, own |-> TRUE]] = @ + 1]

\* The effect's cleanup.  The calls the unmounted run issued stay in flight;
\* they now belong to a run that is no longer mounted.
Cleanup(ps) ==
    [k \in PollKeys |->
        IF k.own THEN 0
        ELSE ps[k] + ps[[doc |-> k.doc, own |-> TRUE]]]

\* The effect as it would be without the tick() call before setInterval.
PollerEffect_NoImmediateTick(d, s, t, ps) ==
    IF d = documentId /\ s = state
    THEN [timer |-> t, polls |-> ps, ticked |-> FALSE]
    ELSE IF PollerRuns(d, s)
         THEN [timer |-> d, polls |-> Cleanup(ps), ticked |-> FALSE]
         ELSE [timer |-> Null, polls |-> Cleanup(ps), ticked |-> FALSE]

\* useEffect(..., [documentId, state]): after a render that changed
\* documentId or state, clean the previous run up and run the effect again.
\* t is the interval as the handler left it, ps the outstanding polls.
PollerEffect(d, s, t, ps) ==
    IF d = documentId /\ s = state
    THEN [timer |-> t, polls |-> ps, ticked |-> FALSE]
    ELSE IF PollerRuns(d, s)
         THEN [timer |-> d, polls |-> IssuePoll(Cleanup(ps), d), ticked |-> TRUE]
         ELSE [timer |-> Null, polls |-> Cleanup(ps), ticked |-> FALSE]

Init ==
    /\ file = NoFile
    /\ documentId = Null
    /\ uploading = FALSE
    /\ state = Null
    /\ error = Null
    /\ timer = Null
    /\ polls = [k \in PollKeys |-> 0]
    /\ submits = [d \in Docs |-> 0]
    /\ href = AppPage
    /\ jobDoc = Null
    /\ choice = "standard"
    /\ sensitivity = SensitivityDefault
    /\ useTextboxesForSignatures = FALSE
    /\ keepExisting = FALSE
    /\ req = NoRequest
    /\ navigated = FALSE
    /\ event = Ev("mount", FALSE, FALSE)

\* ---------------------------------------------------------------- handlers
\* "Choose File" (disabled={uploading || working}) and then onFileChange up
\* to its await: setFile(f); setError(null); setUploading(true); upload(f).
onFileChange ==
    /\ ~(uploading \/ working)
    /\ file' = PdfFile
    /\ error' = Null
    /\ uploading' = TRUE
    /\ event' = Ev("onFileChange", FALSE, FALSE)
    /\ UNCHANGED <<documentId, state, timer, polls, submits, href, jobDoc,
                   settings, req, navigated>>

\* onFileChange after the await, API.upload resolved with id d.
UploadResolves(d) ==
    /\ uploading
    /\ LET eff == PollerEffect(d, state, timer, polls) IN
        /\ InFlightPolls(eff.polls) <= MaxInFlight
        /\ documentId' = d
        /\ uploading' = FALSE
        /\ timer' = eff.timer
        /\ polls' = eff.polls
        /\ event' = Ev("uploadResolves", FALSE, eff.ticked)
    /\ UNCHANGED <<file, state, error, submits, href, jobDoc,
                   settings, req, navigated>>

\* onFileChange after the await, API.upload rejected: the catch block.
UploadRejects(r) ==
    /\ uploading
    /\ LET eff == PollerEffect(Null, state, timer, polls) IN
        /\ error' = UploadError(r)
        /\ file' = NoFile
        /\ documentId' = Null
        /\ uploading' = FALSE
        /\ timer' = eff.timer
        /\ polls' = eff.polls
        /\ event' = Ev("uploadRejects", FALSE, eff.ticked)
    /\ UNCHANGED <<state, submits, href, jobDoc,
                   settings, req, navigated>>

\* onStart as it would be without the !documentId checks (the early return
\* and the disabled button).
onStart_NoDocumentCheck ==
    /\ file # NoFile
    /\ ~working
    /\ InFlightSubmits(submits) < MaxSubmits
    /\ LET eff == PollerEffect(documentId, "enqueued", timer, polls) IN
        /\ InFlightPolls(eff.polls) <= MaxInFlight
        /\ error' = Null
        /\ state' = "enqueued"
        /\ submits' = IF documentId \in Docs
                      THEN [submits EXCEPT ![documentId] = @ + 1]
                      ELSE submits
        /\ timer' = eff.timer
        /\ polls' = eff.polls
        /\ event' = Ev("onStart", FALSE, eff.ticked)
    /\ jobDoc' = documentId
    /\ req' = buildPrepareRequest(documentId, choice, useTextboxesForSignatures,
                                  keepExisting, sensitivity)
    /\ navigated' = FALSE
    /\ UNCHANGED <<file, documentId, uploading, href, settings>>

\* onStart as it would be if the button were disabled only by !documentId.
onStart_NotDisabledWhileWorking ==
    /\ file # NoFile
    /\ documentId # Null
    /\ InFlightSubmits(submits) < MaxSubmits
    /\ LET eff == PollerEffect(documentId, "enqueued", timer, polls) IN
        /\ InFlightPolls(eff.polls) <= MaxInFlight
        /\ error' = Null
        /\ state' = "enqueued"
        /\ submits' = [submits EXCEPT ![documentId] = @ + 1]
        /\ timer' = eff.timer
        /\ polls' = eff.polls
        /\ event' = Ev("onStart", FALSE, eff.ticked)
    /\ jobDoc' = documentId
    /\ req' = buildPrepareRequest(documentId, choice, useTextboxesForSignatures,
                                  keepExisting, sensitivity)
    /\ navigated' = FALSE
    /\ UNCHANGED <<file, documentId, uploading, href, settings>>

\* "Start Detection" (rendered when file, disabled={!documentId || working})
\* and then onStart up to its await.
onStart ==
    /\ file # NoFile
    /\ ~(documentId = Null \/ working)
    /\ documentId # Null
    /\ InFlightSubmits(submits) < MaxSubmits
    /\ LET eff == PollerEffect(documentId, "enqueued", timer, polls) IN
        /\ InFlightPolls(eff.polls) <= MaxInFlight
        /\ error' = Null
        /\ state' = "enqueued"
        /\ submits' = [submits EXCEPT ![documentId] = @ + 1]
        /\ timer' = eff.timer
        /\ polls' = eff.polls
        /\ event' = Ev("onStart", FALSE, eff.ticked)
    /\ jobDoc' = documentId
    /\ req' = buildPrepareRequest(documentId, choice, useTextboxesForSignatures,
                                  keepExisting, sensitivity)
    /\ navigated' = FALSE
    /\ UNCHANGED <<file, documentId, uploading, href, settings>>

\* onStart after the await, API.startDetect resolved: setState(res.status).
StartDetectResolves(d, status) ==
    /\ submits[d] > 0
    /\ LET eff == PollerEffect(documentId, status, timer, polls) IN
        /\ InFlightPolls(eff.polls) <= MaxInFlight
        /\ state' = status
        /\ submits' = [submits EXCEPT ![d] = @ - 1]
        /\ timer' = eff.timer
        /\ polls' = eff.polls
        /\ event' = EvSettled("startDetectResolves", FALSE, eff.ticked, status, Null)
    /\ UNCHANGED <<file, documentId, uploading, error, href, jobDoc,
                   settings, req, navigated>>

\* The catch block of onStart as it would be without setState("failure").
StartDetectRejects_NoFailure(d, r) ==
    /\ submits[d] > 0
    /\ error' = StartDetectError(r)
    /\ submits' = [submits EXCEPT ![d] = @ - 1]
    /\ event' = EvSettled("startDetectRejects", FALSE, FALSE, r, Null)
    /\ UNCHANGED <<file, documentId, uploading, state, timer, polls, href, jobDoc,
                   settings, req, navigated>>

\* onStart after the await, API.startDetect rejected: the catch block.
StartDetectRejects(d, r) ==
    /\ submits[d] > 0
    /\ LET eff == PollerEffect(documentId, "failure", timer, polls) IN
        /\ error' = StartDetectError(r)
        /\ state' = "failure"
        /\ submits' = [submits EXCEPT ![d] = @ - 1]
        /\ timer' = eff.timer
        /\ polls' = eff.polls
        /\ event' = EvSettled("startDetectRejects", FALSE, eff.ticked, r, Null)
    /\ UNCHANGED <<file, documentId, uploading, href, jobDoc,
                   settings, req, navigated>>

\* setInterval(tick, POLL_MS) fires: tick() up to its await.
IntervalTick ==
    /\ timer # Null
    /\ InFlightPolls(polls) < MaxInFlight
    /\ polls' = IssuePoll(polls, timer)
    /\ event' = Ev("intervalTick", FALSE, TRUE)
    /\ UNCHANGED <<file, documentId, uploading, state, error, timer, submits, href, jobDoc,
                   settings, req, navigated>>

\* if (timer) clearInterval(timer), run by the tick of poll k: timer is the
\* variable of the effect run that issued k.
ClearOwnInterval(k, t) == IF k.own THEN Null ELSE t

\* The try block of tick() as it would be if a failure status were skipped.
PollResolves_DropsFailure(k, status) ==
    /\ polls[k] > 0
    /\ LET done == [polls EXCEPT ![k] = @ - 1]
           st == IF status = "failure" THEN state ELSE status
           t == IF status = "success"
                THEN ClearOwnInterval(k, timer) ELSE timer
           eff == PollerEffect(documentId, st, t, done) IN
        /\ InFlightPolls(eff.polls) <= MaxInFlight
        /\ state' = st
        /\ href' = IF status = "success" THEN getDownloadUrl(k.doc) ELSE href
        /\ timer' = eff.timer
        /\ polls' = eff.polls
        /\ event' = EvSettled("pollResolves", status = "success", eff.ticked, status, k.doc)
    /\ navigated' = (navigated \/ status = "success")
    /\ UNCHANGED <<file, documentId, uploading, error, submits, jobDoc, settings, req>>

\* tick() after the await, API.pollStatus resolved: the try block.
PollResolves(k, status) ==
    /\ polls[k] > 0
    /\ LET done == [polls EXCEPT ![k] = @ - 1]
           t == IF status = "success" \/ status = "failure"
                THEN ClearOwnInterval(k, timer) ELSE timer
           eff == PollerEffect(documentId, status, t, done) IN
        /\ InFlightPolls(eff.polls) <= MaxInFlight
        /\ state' = status
        /\ href' = IF status = "success" THEN getDownloadUrl(k.doc) ELSE href
        /\ timer' = eff.timer
        /\ polls' = eff.polls
        /\ event' = EvSettled("pollResolves", status = "success", eff.ticked, status, k.doc)
    /\ navigated' = (navigated \/ status = "success")
    /\ UNCHANGED <<file, documentId, uploading, error, submits, jobDoc, settings, req>>

\* The catch block of tick() as it would be if a rejected poll only set the
\* error and left the job state and the interval alone.
PollRejects_KeepsPolling(k, r) ==
    /\ polls[k] > 0
    /\ error' = PollStatusError(r)
    /\ polls' = [polls EXCEPT ![k] = @ - 1]
    /\ event' = EvSettled("pollRejects", FALSE, FALSE, r, k.doc)
    /\ UNCHANGED <<file, documentId, uploading, state, timer, submits, href, jobDoc,
                   settings, req, navigated>>

\* tick() after the await, API.pollStatus rejected: the catch block.
PollRejects(k, r) ==
    /\ polls[k] > 0
    /\ LET done == [polls EXCEPT ![k] = @ - 1]
           eff == PollerEffect(documentId, "failure", ClearOwnInterval(k, timer), done) IN
        /\ state' = "failure"
        /\ error' = PollStatusError(r)
        /\ timer' = eff.timer
        /\ polls' = eff.polls
        /\ event' = EvSettled("pollRejects", FALSE, eff.ticked, r, k.doc)
    /\ UNCHANGED <<file, documentId, uploading, submits, href, jobDoc,
                   settings, req, navigated>>

\* onReset as it would be without setState(null).
onReset_KeepsJobState ==
    /\ file # NoFile /\ ~uploading
    /\ LET eff == PollerEffect(Null, state, timer, polls) IN
        /\ file' = NoFile
        /\ documentId' = Null
        /\ error' = Null
        /\ timer' = eff.timer
        /\ polls' = eff.polls
        /\ event' = Ev("onReset", FALSE, eff.ticked)
    /\ jobDoc' = Null
    /\ req' = NoRequest
    /\ navigated' = FALSE
    /\ UNCHANGED <<state, uploading, submits, href, settings>>

\* The reset button (rendered when file && !uploading) and onReset.
onReset ==
    /\ file # NoFile /\ ~uploading
    /\ LET eff == PollerEffect(Null, Null, timer, polls) IN
        /\ file' = NoFile
        /\ documentId' = Null
        /\ state' = Null
        /\ error' = Null
        /\ timer' = eff.timer
        /\ polls' = eff.polls
        /\ event' = Ev("onReset", FALSE, eff.ticked)
    /\ jobDoc' = Null
    /\ req' = NoRequest
    /\ navigated' = FALSE
    /\ UNCHANGED <<uploading, submits, href, settings>>

Next ==
    \/ onFileChange
    \/ \E d \in Docs : UploadResolves(d)
    \/ \E r \in Rejections : UploadRejects(r)
    \/ onStart
    \/ \E d \in Docs, s \in StatusResponse : StartDetectResolves(d, s)
    \/ \E d \in Docs, r \in Rejections : StartDetectRejects(d, r)
    \/ IntervalTick
    \/ \E k \in PollKeys, s \in StatusResponse : PollResolves(k, s)
    \/ \E k \in PollKeys, r \in Rejections : PollRejects(k, r)
    \/ onReset

Spec == Init /\ [][Next]_vars

\* ------------------------------------------- building the PrepareRequest
\* PipelineCard onClick={() => setChoice(id)}; the cards rendered are "quick"
\* and "standard".
setChoice(c) ==
    /\ file # NoFile
    /\ choice' = c
    /\ event' = Ev("setChoice", FALSE, FALSE)
    /\ UNCHANGED <<flow, sensitivity, useTextboxesForSignatures, keepExisting,
                   req, navigated>>

\* onChange={(e) => setSensitivity(parseInt(e.target.value, 10))}
setSensitivity(v) ==
    /\ file # NoFile
    /\ sensitivity' = v
    /\ event' = Ev("setSensitivity", FALSE, FALSE)
    /\ UNCHANGED <<flow, choice, useTextboxesForSignatures, keepExisting,
                   req, navigated>>

\* Toggle "Use Textboxes for Signatures": onChange(!value)
setUseTextboxesForSignatures ==
    /\ file # NoFile
    /\ useTextboxesForSignatures' = ~useTextboxesForSignatures
    /\ event' = Ev("setUseTextboxesForSignatures", FALSE, FALSE)
    /\ UNCHANGED <<flow, choice, sensitivity, keepExisting, req, navigated>>

\* Toggle "Keep Existing Fields": onChange(!value)
setKeepExisting ==
    /\ file # NoFile
    /\ keepExisting' = ~keepExisting
    /\ event' = Ev("setKeepExisting", FALSE, FALSE)
    /\ UNCHANGED <<flow, choice, sensitivity, useTextboxesForSignatures,
                   req, navigated>>

\* A document has been uploaded and no job was started; the arguments of
\* buildPrepareRequest range over their types.
InitRequest ==
    /\ file = PdfFile
    /\ documentId \in Docs
    /\ uploading = FALSE
    /\ state = Null
    /\ error = Null
    /\ timer = Null
    /\ polls = [k \in PollKeys |-> 0]
    /\ submits = [d \in Docs |-> 0]
    /\ href = AppPage
    /\ jobDoc = Null
    /\ choice \in Choices
    /\ sensitivity \in Sensitivities
    /\ useTextboxesForSignatures \in BOOLEAN
    /\ keepExisting \in BOOLEAN
    /\ req = NoRequest
    /\ navigated = FALSE
    /\ event = Ev("uploadResolves", FALSE, FALSE)

NextRequest ==
    \/ \E c \in {"quick", "standard"} : setChoice(c)
    \/ \E v \in Sensitivities : setSensitivity(v)
    \/ setUseTextboxesForSignatures
    \/ setKeepExisting
    \/ onStart

SpecRequest == InitRequest /\ [][NextRequest]_vars

TypeOK ==
    /\ file \in {NoFile, PdfFile}
    /\ documentId \in Docs \cup {Null}
    /\ uploading \in BOOLEAN
    /\ state \in StatusResponse \cup {Null}
    /\ timer \in Docs \cup {Null}
    /\ jobDoc \in Docs \cup {Null}
    /\ polls \in [PollKeys -> 0..MaxInFlight]
    /\ submits \in [Docs -> 0..MaxSubmits]
    /\ InFlightPolls(polls) <= MaxInFlight
    /\ choice \in Choices
    /\ sensitivity \in Sensitivities
    /\ useTextboxesForSignatures \in BOOLEAN
    /\ keepExisting \in BOOLEAN
    /\ navigated \in BOOLEAN

\* ------------------------------------------------------------------ claims
Terminal == {"success", "failure"}

\* The orchestrator's derived state "idle": no document, no job state, no error.
Idle == documentId = Null /\ state = Null /\ error = Null

PollEvents == {"pollResolves", "pollRejects"}

\* C1: once state is success or failure, no event other than onReset changes
\* it to enqueued, running or the other terminal state.
C1_TerminalLeftOnlyByReset ==
    [][(state \in Terminal /\ event'.kind # "onReset")
        => state' \notin (JobState \ {state})]_vars

\* C2: a poll call that resolves or rejects while the orchestrator is idle
\* (it was in flight when onReset ran) leaves it idle and does not navigate.
C2_PollAfterResetIsNoOp ==
    [][(Idle /\ event'.kind \in PollEvents)
        => (Idle' /\ ~event'.navigated)]_vars

\* C3: at most one pollStatus call is outstanding in every reachable state.
C3_SingleFlight == InFlightPolls(polls) <= 1

\* C4: whenever state holds a defined value, the interval is armed exactly
\* when a document id is held and state is enqueued or running; in
\* particular state is never enqueued or running with no interval armed, and
\* an interval is never armed in any other state.
C4_TimerIffActiveJob ==
    state \in JobState \cup {Null}
        => /\ (timer # Null) <=> (documentId # Null /\ working)
           /\ working => timer # Null
           /\ timer # Null => working

\* C5: while state is enqueued or running no handler issues a startDetect
\* call, and the only handler that ever issues one is onStart, which does not
\* run while working; so a submit request in that state changes nothing.
C5_NoSubmitWhileWorking ==
    [][/\ working => (\A d \in Docs : submits'[d] <= submits[d])
       /\ event'.kind = "onStart" => ~working]_vars

\* C5 witness: a job is in progress on a held document with the action row
\* rendered and room for another startDetect call; only the disabled button
\* stands between the user and a second submission.
C5_Witness ==
    /\ working /\ file # NoFile /\ documentId # Null
    /\ InFlightSubmits(submits) = 1
    /\ event.kind = "onStart"

\* C6: state is always null (idle / documentReady) or one of the four
\* JobState values; it never holds a string taken verbatim from a response
\* that is none of them.
C6_StateIsDefined == state \in JobState \cup {Null}

\* C7: when the startDetect response that is applied carries success, the
\* scheduler was not activated while the call was outstanding: no interval
\* is armed and no pollStatus call of the mounted effect is in flight.
C7_ImmediateSuccessNeverPolls ==
    [][(event'.kind = "startDetectResolves" /\ state' = "success")
        => (timer = Null /\ \A d \in Docs : polls[[doc |-> d, own |-> TRUE]] = 0)]_vars

\* C8: a poll call that resolves or rejects after the job reached success or
\* failure changes neither state nor error and does not navigate.
C8_PollAfterTerminalIsNoOp ==
    [][(state \in Terminal /\ event'.kind \in PollEvents)
        => (state' = state /\ error' = error /\ ~event'.navigated)]_vars

\* C9: while no interval is armed (the scheduler is deactivated), no handler
\* other than onStart (a new job being submitted) calls pollStatus.
C9_NoPollAfterDeactivation ==
    [][(timer = Null /\ event'.kind # "onStart") => ~event'.polled]_vars

\* C10: onReset, from whatever state it runs in, leaves the orchestrator
\* idle: no file, no document id, no job state, no error, no interval armed.
C10_ResetYieldsIdle ==
    [][event'.kind = "onReset"
        => (Idle' /\ file' = NoFile /\ timer' = Null)]_vars

\* C10 witness: onReset has just run while a startDetect call and a
\* pollStatus call were outstanding.
C10_Witness ==
    /\ event.kind = "onReset"
    /\ InFlightSubmits(submits) > 0
    /\ InFlightPolls(polls) > 0

\* C11: a pollStatus call that rejects while state is enqueued or running
\* sets state failure and a non-empty error (the rejection's message),
\* leaves no interval armed and issues no further poll.
C11_PollRejectionFails ==
    [][(working /\ event'.kind = "pollRejects")
        => /\ state' = "failure"
           /\ error' # Null /\ error' = PollStatusError(event'.response)
           /\ timer' = Null
           /\ ~event'.polled]_vars

\* C11 witness: a poll made for the current job's document has just rejected.
C11_Witness ==
    /\ event.kind = "pollRejects"
    /\ jobDoc # Null /\ event.call = jobDoc /\ documentId = jobDoc
    /\ state = "failure" /\ error # Null

\* C12: a pollStatus response whose status is no JobState, received while
\* state is enqueued or running, is handled as an error: state failure, a
\* non-empty error, no interval armed, no further poll.
C12_UnknownStatusIsProtocolError ==
    [][(working /\ event'.kind = "pollResolves" /\ event'.response \notin JobState)
        => /\ state' = "failure"
           /\ error' # Null
           /\ timer' = Null
           /\ ~event'.polled]_vars

\* C13: while no document id is held, no step issues a startDetect call and
\* onStart does not run (so state, documentId and error are not touched by a
\* submit request).
C13_NoSubmitWithoutDocument ==
    [][documentId = Null
        => /\ \A d \in Docs : submits'[d] <= submits[d]
           /\ event'.kind # "onStart"]_vars

\* C13 witness: the action row is rendered (a file is chosen), no job is in
\* progress, a startDetect call would fit, and no document id is held.
C13_Witness ==
    /\ documentId = Null /\ file # NoFile /\ ~working
    /\ InFlightSubmits(submits) < MaxSubmits

\* C14: a pollStatus response of success received while state is enqueued or
\* running sets state success, leaves no interval armed and navigates to the
\* download URL of the document the job was submitted for.
C14_SuccessNavigatesToJobDocument ==
    [][(working /\ event'.kind = "pollResolves" /\ event'.response = "success")
        => /\ state' = "success"
           /\ timer' = Null
           /\ event'.navigated
           /\ href' = getDownloadUrl(jobDoc)]_vars

\* C15 as claimed: a pollStatus response of failure received while state is
\* enqueued or running sets state failure, leaves no interval armed and makes
\* error non-empty.
C15_FailureStatusSetsError ==
    [][(working /\ event'.kind = "pollResolves" /\ event'.response = "failure")
        => /\ state' = "failure"
           /\ timer' = Null
           /\ error' # Null]_vars

\* C15 as amended: a pollStatus response of failure received while state is
\* enqueued or running sets state failure (which the Failed indicator shows),
\* leaves no interval armed, issues no further poll and leaves error as it
\* was.
C15_FailureStatusSetsStateOnly ==
    [][(working /\ event'.kind = "pollResolves" /\ event'.response = "failure")
        => /\ state' = "failure"
           /\ timer' = Null
           /\ ~event'.polled
           /\ error' = error]_vars

\* C15 witness: a poll of the current job's document has just answered
\* failure; state is failure and there is no error text.
C15_Witness ==
    /\ event.kind = "pollResolves" /\ event.response = "failure"
    /\ jobDoc # Null /\ event.call = jobDoc /\ documentId = jobDoc
    /\ state = "failure" /\ error = Null

\* C16: when API.upload rejects, no document id is held, error is non-empty
\* and the orchestrator is idle: there is no job state.
C16_UploadFailureYieldsIdle ==
    [][event'.kind = "uploadRejects"
        => /\ documentId' = Null
           /\ error' # Null
           /\ state' = Null]_vars

\* C17: when API.startDetect rejects, state is failure, error is non-empty
\* (the rejection's message), documentId is unchanged, no interval is armed
\* and no poll is issued.
C17_SubmitFailureIsVisible ==
    [][event'.kind = "startDetectRejects"
        => /\ state' = "failure"
           /\ error' # Null /\ error' = StartDetectError(event'.response)
           /\ documentId' = documentId
           /\ timer' = Null
           /\ ~event'.polled]_vars

\* C17 witness: the startDetect call of the current job has just rejected
\* while its document is still held.
C17_Witness ==
    /\ event.kind = "startDetectRejects"
    /\ documentId # Null /\ documentId = jobDoc
    /\ state = "failure" /\ error # Null

\* C18: every step that arms an interval (the effect ran for a changed
\* documentId or state) has already called pollStatus once for that run.
C18_ImmediateFirstPoll ==
    [][(timer' # Null /\ (timer = Null \/ documentId' # documentId \/ state' # state))
        => /\ event'.polled
           /\ polls'[[doc |-> timer', own |-> TRUE]] = 1]_vars

\* C18 witness: onStart has just activated the scheduler.
C18_Witness ==
    /\ event.kind = "onStart" /\ timer # Null /\ timer = documentId
    /\ polls[[doc |-> timer, own |-> TRUE]] = 1

\* C19: while a job exists for the document that is held, a poll that was
\* made for another document (so for a previous job or document) neither
\* changes state or error nor navigates when it settles.
C19_StalePollIsDiscarded ==
    [][(jobDoc # Null /\ documentId = jobDoc
            /\ event'.kind \in PollEvents /\ event'.call # jobDoc)
        => /\ state' = state
           /\ error' = error
           /\ ~event'.navigated]_vars

\* C20: onStart, which issues the startDetect call, neither calls pollStatus
\* nor arms the interval; the scheduler waits for the response.
C20_NoPollBeforeSubmitResolves ==
    [][event'.kind = "onStart" => (~event'.polled /\ timer' = Null)]_vars

NonTerminal == {"enqueued", "running"}

\* C21: while state is running and a document is held, a pollStatus response
\* of enqueued or running leaves state running (a response of enqueued does
\* not move it back to enqueued) and leaves the interval armed.
C21_NonTerminalPollKeepsRunning ==
    [][(state = "running" /\ documentId # Null
            /\ event'.kind = "pollResolves" /\ event'.response \in NonTerminal)
        => (state' = "running" /\ timer' # Null)]_vars

\* C22: once state is success or failure, no step other than a new onStart
\* calls pollStatus: polling has terminated.
C22_NoPollOnceTerminal ==
    [][(state \in Terminal /\ event'.kind # "onStart") => ~event'.polled]_vars

SubmitEvents == {"startDetectResolves", "startDetectRejects"}

\* C26: a startDetect call that settles while the orchestrator is idle (it
\* was in flight when onReset ran) changes nothing: afterwards there is still
\* no document, no job state and no error, no interval is armed and no poll
\* is issued.
C26_SubmitAfterResetIsNoOp ==
    [][(Idle /\ event'.kind \in SubmitEvents)
        => (Idle' /\ timer' = Null /\ ~event'.polled)]_vars

\* The reset button is rendered: file && !uploading.
ResetEnabled == file # NoFile /\ ~uploading
\* The "Choose File" button is enabled: !(uploading || working).
ChooseFileEnabled == ~(uploading \/ working)
\* An awaited API call has not settled yet.
CallOutstanding ==
    uploading \/ InFlightSubmits(submits) > 0 \/ InFlightPolls(polls) > 0

\* C27: whenever state is enqueued or running, an interval is armed, or a
\* call is outstanding, or reset or "Choose File" is enabled.
C27_NeverStuck ==
    working => (timer # Null \/ CallOutstanding \/ ResetEnabled \/ ChooseFileEnabled)

\* C28: whenever state is success and a document id is held (the download
\* link for it is shown), that id is the one the last job was submitted for.
C28_SuccessBelongsToHeldDocument ==
    (state = "success" /\ documentId # Null) => jobDoc = documentId

\* C23: the request onStart builds has the documentId held, model large
\* exactly when choice is enhanced and small otherwise, use_signature_fields
\* the negation of useTextboxesForSignatures and keep_existing_fields equal
\* to keepExisting.
C23_RequestMirrorsSettings ==
    [][event'.kind = "onStart"
        => /\ req'.documentId = documentId
           /\ req'.config.model = "large" <=> choice = "enhanced"
           /\ req'.config.model = "small" <=> choice \in {"quick", "standard"}
           /\ req'.config.use_signature_fields = ~useTextboxesForSignatures
           /\ req'.config.keep_existing_fields = keepExisting]_vars

\* C23 witness: a request was built for choice standard with the textbox
\* toggle on, so model is small and use_signature_fields is FALSE.
C23_Witness ==
    /\ event.kind = "onStart" /\ choice = "standard"
    /\ useTextboxesForSignatures /\ keepExisting
    /\ req.documentId = documentId /\ req.config.model = "small"
    /\ ~req.config.use_signature_fields /\ req.config.keep_existing_fields

\* C24: the sensitivity of every request built lies between 0 and 1.
C24_SensitivityInUnitRange ==
    req # NoRequest
        => (0 <= req.config.sensitivity /\ req.config.sensitivity <= 1)

\* C25: between one onStart and the next, tick() navigates to the download
\* URL at most once: once it has navigated, no later step navigates again.
C25_NavigatesAtMostOnce ==
    [][navigated => ~event'.navigated]_vars
====
